---- MODULE Spec2Model ----
(***************************************************************************)
(* Model of `step ca revoke` (command/ca/revoke.go): the reason code       *)
(* resolver ReasonCodeToNum and the revocation flow revokeCertificateAction *)
(* with newRevokeFlow, revokeFlow.GenerateToken, revokeFlow.getClient and   *)
(* revokeFlow.Revoke.                                                       *)
(*                                                                         *)
(* Go strings whose content the code inspects (serial numbers, token        *)
(* subjects, URLs, reason codes, fingerprints) are sequences of one         *)
(* character strings, so that strings.ToLower, strings.ReplaceAll,          *)
(* strings.HasPrefix, strings.EqualFold and strconv.Atoi are computed.      *)
(* File paths are only compared with "" by the code and are TLA+ strings.   *)
(***************************************************************************)
EXTENDS Integers, Sequences, FiniteSets, TLC

(***************************************************************************)
(* Strings                                                                 *)
(***************************************************************************)
UpperAlpha == <<"A","B","C","D","E","F","G","H","I","J","K","L","M",
                "N","O","P","Q","R","S","T","U","V","W","X","Y","Z">>

LowerAlpha == <<"a","b","c","d","e","f","g","h","i","j","k","l","m",
                "n","o","p","q","r","s","t","u","v","w","x","y","z">>

DigitChars == <<"0","1","2","3","4","5","6","7","8","9">>

\* unicode.ToLower on one ASCII character
ToLowerChar(c) ==
  IF \E i \in DOMAIN UpperAlpha : UpperAlpha[i] = c
    THEN LowerAlpha[CHOOSE i \in DOMAIN UpperAlpha : UpperAlpha[i] = c]
    ELSE c

\* strings.ToLower
ToLower(s) == [i \in 1..Len(s) |-> ToLowerChar(s[i])]

\* strings.ReplaceAll(s, " ", "")
RECURSIVE RemoveSpaces(_)
RemoveSpaces(s) ==
  IF s = <<>> THEN <<>>
  ELSE IF Head(s) = " " THEN RemoveSpaces(Tail(s))
  ELSE <<Head(s)>> \o RemoveSpaces(Tail(s))

\* strings.HasPrefix
HasPrefix(s, p) == Len(s) >= Len(p) /\ SubSeq(s, 1, Len(p)) = p

\* strings.EqualFold, on the ASCII alphabet of the model
EqualFold(s, t) == ToLower(s) = ToLower(t)

IsDigit(c) == \E i \in DOMAIN DigitChars : DigitChars[i] = c

DigitVal(c) == (CHOOSE i \in DOMAIN DigitChars : DigitChars[i] = c) - 1

AllDigits(s) == \A i \in 1..Len(s) : IsDigit(s[i])

RECURSIVE StripZeros(_)
StripZeros(s) ==
  IF s # <<>> /\ Head(s) = "0" THEN StripZeros(Tail(s)) ELSE s

\* strconv.Itoa on a natural number
RECURSIVE NatDigits(_)
NatDigits(n) ==
  IF n < 10 THEN <<DigitChars[n + 1]>>
  ELSE Append(NatDigits(n \div 10), DigitChars[(n % 10) + 1])

\* strconv.Itoa: the decimal string of n
Itoa(n) == IF n < 0 THEN <<"-">> \o NatDigits(0 - n) ELSE NatDigits(n)

\* Decimal value of a short digit string
RECURSIVE DigitsValue(_, _)
DigitsValue(s, acc) ==
  IF s = <<>> THEN acc
  ELSE DigitsValue(Tail(s), acc * 10 + DigitVal(Head(s)))

\* lexicographic s > t for digit strings of equal length
RECURSIVE DigitsGreater(_, _)
DigitsGreater(s, t) ==
  IF s = <<>> THEN FALSE
  ELSE IF DigitVal(Head(s)) # DigitVal(Head(t))
    THEN DigitVal(Head(s)) > DigitVal(Head(t))
  ELSE DigitsGreater(Tail(s), Tail(t))

\* 9223372036854775807 and 9223372036854775808: the magnitudes of the largest
\* and of the smallest int
MaxIntDigits == <<"9","2","2","3","3","7","2","0","3","6","8","5","4","7","7","5","8","0","7">>

MinIntDigits == <<"9","2","2","3","3","7","2","0","3","6","8","5","4","7","7","5","8","0","8">>

\* A 64-bit int is written as its sign and the decimal digits of its
\* magnitude without leading zeros, <<"0">> for zero, so that every int has
\* one representation and none is cut to the integers of TLC.
IntOf(neg, mag) ==
  IF mag = <<>> THEN [neg |-> FALSE, digits |-> <<"0">>]
  ELSE [neg |-> neg, digits |-> mag]

\* the int n, for an integer n of the model
IntOfNum(n) == IntOf(n < 0, StripZeros(NatDigits(IF n < 0 THEN 0 - n ELSE n)))

\* s < t for the digit strings of two magnitudes
MagLess(s, t) ==
  Len(s) < Len(t) \/ (Len(s) = Len(t) /\ DigitsGreater(t, s))

\* a < b on ints
IntLess(a, b) ==
  IF a.neg # b.neg THEN a.neg
  ELSE IF a.neg THEN MagLess(b.digits, a.digits)
  ELSE MagLess(a.digits, b.digits)

\* the integer of the model for an int of few digits
IntNum(a) ==
  IF a.neg THEN 0 - DigitsValue(a.digits, 0) ELSE DigitsValue(a.digits, 0)

\* 18446744073709551615: the largest uint64
MaxUintDigits == <<"1","8","4","4","6","7","4","4","0","7","3","7","0","9","5","5","1","6","1","5">>

\* the digits of s before its first character that is no digit
RECURSIVE DigitPrefix(_)
DigitPrefix(s) ==
  IF s = <<>> \/ ~IsDigit(Head(s)) THEN <<>>
  ELSE <<Head(s)>> \o DigitPrefix(Tail(s))

\* strconv.Atoi: an optional sign, then one or more decimal digits, read from
\* the left. Digits that exceed uint64 end the reading with a range error
\* before a later character is looked at; otherwise a character that is no
\* digit, or no digit at all, is a syntax error returning 0; otherwise a value
\* beyond the range of int is a range error. A range error returns the
\* nearest int with the error; [ok |-> FALSE] is either error.
Atoi(s) ==
  LET signed == s # <<>> /\ Head(s) \in {"+", "-"}
      neg    == s # <<>> /\ Head(s) = "-"
      body   == IF signed THEN Tail(s) ELSE s
      mag    == StripZeros(body)
      limit  == IF neg THEN MinIntDigits ELSE MaxIntDigits
      wraps  == MagLess(MaxUintDigits, StripZeros(DigitPrefix(body)))
      range  == MagLess(limit, mag)
  IN IF wraps
       THEN [ok |-> FALSE, val |-> IntOf(neg, limit)]
     ELSE IF body = <<>> \/ ~AllDigits(body)
       THEN [ok |-> FALSE, val |-> IntOf(FALSE, <<>>)]
     ELSE IF range
       THEN [ok |-> FALSE, val |-> IntOf(neg, limit)]
     ELSE [ok |-> TRUE, val |-> IntOf(neg, mag)]

(***************************************************************************)
(* Reason codes                                                            *)
(***************************************************************************)
\* golang.org/x/crypto/ocsp revocation reason codes (RFC 5280), as used by
\* RevocationReasonCodes
Unspecified == 0

KeyCompromise == 1

CACompromise == 2

AffiliationChanged == 3

Superseded == 4

CessationOfOperation == 5

CertificateHold == 6

RemoveFromCRL == 8

PrivilegeWithdrawn == 9

AACompromise == 10

\* var RevocationReasonCodes = map[string]int{...}
RevocationReasonCodes ==
     (<<"u","n","s","p","e","c","i","f","i","e","d">> :> Unspecified)
  @@ (<<"k","e","y","c","o","m","p","r","o","m","i","s","e">> :> KeyCompromise)
  @@ (<<"c","a","c","o","m","p","r","o","m","i","s","e">> :> CACompromise)
  @@ (<<"a","f","f","i","l","i","a","t","i","o","n","c","h","a","n","g","e","d">> :> AffiliationChanged)
  @@ (<<"s","u","p","e","r","s","e","d","e","d">> :> Superseded)
  @@ (<<"c","e","s","s","a","t","i","o","n","o","f","o","p","e","r","a","t","i","o","n">> :> CessationOfOperation)
  @@ (<<"c","e","r","t","i","f","i","c","a","t","e","h","o","l","d">> :> CertificateHold)
  @@ (<<"r","e","m","o","v","e","f","r","o","m","c","r","l">> :> RemoveFromCRL)
  @@ (<<"p","r","i","v","i","l","e","g","e","w","i","t","h","d","r","a","w","n">> :> PrivilegeWithdrawn)
  @@ (<<"a","a","c","o","m","p","r","o","m","i","s","e">> :> AACompromise)

\* ReasonCodeToNum with the upper bound of line 501 excluded
ReasonCodeToNumUpperExclusive(rc) ==
  LET a    == Atoi(rc)
      name == ToLower(RemoveSpaces(rc))
  IN IF rc = <<>> THEN [code |-> 0, err |-> ""]
     ELSE IF a.ok
       THEN IF \/ IntLess(a.val, IntOfNum(Unspecified))
               \/ ~IntLess(a.val, IntOfNum(AACompromise))
              THEN [code |-> 0 - 1, err |-> "reasonCode out of bounds"]
              ELSE [code |-> IntNum(a.val), err |-> ""]
     ELSE IF name \notin DOMAIN RevocationReasonCodes
       THEN [code |-> 0, err |-> "unrecognized revocation reason code"]
     ELSE [code |-> RevocationReasonCodes[name], err |-> ""]

\* ReasonCodeToNum with the spaces left in the name looked up at line 508
ReasonCodeToNumKeepingSpaces(rc) ==
  LET a    == Atoi(rc)
      name == ToLower(rc)
  IN IF rc = <<>> THEN [code |-> 0, err |-> ""]
     ELSE IF a.ok
       THEN IF \/ IntLess(a.val, IntOfNum(Unspecified))
               \/ IntLess(IntOfNum(AACompromise), a.val)
              THEN [code |-> 0 - 1, err |-> "reasonCode out of bounds"]
              ELSE [code |-> IntNum(a.val), err |-> ""]
     ELSE IF name \notin DOMAIN RevocationReasonCodes
       THEN [code |-> 0, err |-> "unrecognized revocation reason code"]
     ELSE [code |-> RevocationReasonCodes[name], err |-> ""]

\* ReasonCodeToNum(rc): the (int, error) the function returns; err is "" for nil
ReasonCodeToNum(rc) ==
  LET a    == Atoi(rc)
      name == ToLower(RemoveSpaces(rc))
  IN IF rc = <<>> THEN [code |-> 0, err |-> ""]
     ELSE IF a.ok
       THEN IF \/ IntLess(a.val, IntOfNum(Unspecified))
               \/ IntLess(IntOfNum(AACompromise), a.val)
              THEN [code |-> 0 - 1, err |-> "reasonCode out of bounds"]
              ELSE [code |-> IntNum(a.val), err |-> ""]
     ELSE IF name \notin DOMAIN RevocationReasonCodes
       THEN [code |-> 0, err |-> "unrecognized revocation reason code"]
     ELSE [code |-> RevocationReasonCodes[name], err |-> ""]

(***************************************************************************)
(* Inputs of one invocation                                                *)
(***************************************************************************)
\* bounds of the model
MaxArgs == 2

MaxBundle == 2

S_ab == <<"a","b">>

S_AB == <<"A","B">>

S_12 == <<"1","2">>

S_34 == <<"3","4">>

\* positional arguments: the empty string is a possible argument
ArgSerials == {<<>>, S_ab, S_AB}

\* serial numbers of the certificates of a --cert bundle (decimal)
CertSerials == {S_12, S_34}

\* answers to the serial number prompt (validated not empty)
PromptSerials == {S_ab, S_12}

RECURSIVE SeqsUpTo(_, _)
SeqsUpTo(S, n) ==
  IF n = 0 THEN {<<>>}
  ELSE LET shorter == SeqsUpTo(S, n - 1)
       IN shorter \cup {Append(q, x) : q \in shorter, x \in S}

ArgLists == SeqsUpTo(ArgSerials, MaxArgs)

Bundles == SeqsUpTo(CertSerials, MaxBundle) \ {<<>>}

UrlCA == <<"h","t","t","p","s",":","/","/","c","a">>

UrlHint == <<"H","T","T","P","S",":","/","/","h","i","n","t">>

UrlBad == <<":">>

HostOnly == <<"c","a",".","l","o","c","a","l">>

Fingerprint == <<"f","0","0","d">>

HttpPrefix == <<"h","t","t","p">>

CaURLs == {<<>>, UrlCA, UrlBad}

CertFiles == {"", "leaf.crt"}

KeyFiles == {"", "leaf.key"}

RootFiles == {"", "root.crt"}

CaConfigs == {"", "ca.json"}

ReasonCodeFlags == {<<>>, <<"7">>, <<"1","1">>, <<"K","e","y"," ","C","o","m","p","r","o","m","i","s","e">>, <<"b","o","g","u","s">>}

\* pki.GetRootCAPath()
DefaultRoot == "default-root.crt"

\* A token is what jose.ParseSigned and UnsafeClaimsWithoutVerification make
\* of it: the empty string, a string that is no JWS, a JWS whose payload is
\* no claims object, or a JWS with claims sub, aud and sha.
EmptyToken == [form |-> "empty", sub |-> <<>>, aud |-> <<>>, sha |-> <<>>]

MalformedToken == [form |-> "malformed", sub |-> <<>>, aud |-> <<>>, sha |-> <<>>]

BadClaimsToken == [form |-> "badclaims", sub |-> <<>>, aud |-> <<>>, sha |-> <<>>]

Jws(sub, aud, sha) == [form |-> "jws", sub |-> sub, aud |-> aud, sha |-> sha]

Audiences == {<<>>, <<UrlHint>>, <<HostOnly>>}

Fingerprints == {<<>>, Fingerprint}

TokenFlags ==
  {EmptyToken, MalformedToken, BadClaimsToken}
    \cup {Jws(s, a, h) : s \in {S_ab, S_12}, a \in Audiences, h \in Fingerprints}

\* errors returned by the CA from Revoke
RevokeErrors == {"ca: forbidden", "ca: internal error"}

FlagSets ==
  [cert : CertFiles, key : KeyFiles, token : TokenFlags, offline : BOOLEAN,
   caConfig : CaConfigs, caURL : CaURLs, root : RootFiles,
   reasonCode : ReasonCodeFlags]

(***************************************************************************)
(* State of one invocation of revokeCertificateAction                      *)
(***************************************************************************)
VARIABLES
  flags,      \* ctx: the command line flags
  args,       \* ctx.Args(): the positional arguments
  pc,         \* position in the flow
  serial,     \* revokeCertificateAction: serial
  token,      \* revokeCertificateAction: token
  flow,       \* the revokeFlow, once built
  caURL,      \* getClient / GenerateToken: caURL
  rootFile,   \* getClient / GenerateToken / Revoke: the resolved root path
  client,     \* Revoke: client
  tr,         \* Revoke: tr
  bundle,     \* the certificates pemutil.ReadCertificateBundle returned
  io,         \* file, network and terminal accesses made so far, in order
  gen,        \* calls of the token generators, in order
  ncalls,     \* calls of ca.NewClient, in order
  sent,       \* requests handed to client.Revoke, in order
  out,        \* lines printed, in order
  revokeRet,  \* what client.Revoke returned
  reasonCode, \* Revoke: reasonCode
  err         \* the error revokeCertificateAction returned ("" for none)

vars == <<flags, args, pc, serial, token, flow, caURL, rootFile, client, tr,
          bundle, io, gen, ncalls, sent, out, revokeRet, reasonCode, err>>

NoFlow == [built |-> FALSE, offline |-> FALSE, offlineCA |-> FALSE]

NoClient == [kind |-> "nil", url |-> <<>>, rootFile |-> "", rootSHA |-> <<>>]

OfflineClient == [kind |-> "offline", url |-> <<>>, rootFile |-> "", rootSHA |-> <<>>]

NoTransport == [built |-> FALSE, cert |-> "", key |-> "", rootCAs |-> ""]

\* args.Get(0): the first argument, "" when there is none
ArgsGet0(a) == IF Len(a) > 0 THEN a[1] ELSE <<>>

\* revokeCertificateAction, lines 210-214, after the command line was parsed
Init ==
  /\ flags \in FlagSets
  /\ args \in ArgLists
  /\ pc = "start"
  /\ serial = ArgsGet0(args)
  /\ token = flags.token
  /\ flow = NoFlow
  /\ caURL = <<>>
  /\ rootFile = ""
  /\ client = NoClient
  /\ tr = NoTransport
  /\ bundle = <<>>
  /\ io = <<>>
  /\ gen = <<>>
  /\ ncalls = <<>>
  /\ sent = <<>>
  /\ out = <<>>
  /\ revokeRet = ""
  /\ reasonCode = 0
  /\ err = ""

\* return err
Fail(e) == pc' = "failed" /\ err' = e

Goto(l) == pc' = l /\ err' = err

Did(op) == io' = Append(io, op)

\* a file with an empty path cannot be opened
Readable(path) == path # ""

\* flags.ParseCaURLIfExists(ctx): "" when --ca-url is unset, an error when
\* the value is no URL
ParseCaURLIfExists(u) ==
  IF u = <<>> THEN [url |-> <<>>, err |-> ""]
  ELSE IF u = UrlBad THEN [url |-> <<>>, err |-> "invalid value for flag --ca-url"]
  ELSE [url |-> u, err |-> ""]

(***************************************************************************)
(* revokeCertificateAction, up to the branch                               *)
(***************************************************************************)
\* the early validation left out: the flag is first converted at line 409
ValidateReasonCodeSkipped ==
  /\ pc = "start"
  /\ Goto("gate")
  /\ UNCHANGED <<flags, args, serial, token, flow, caURL, rootFile, client, tr,
                 bundle, io, gen, ncalls, sent, out, revokeRet, reasonCode>>

\* lines 216-219: validate the reasonCode flag early
ValidateReasonCode ==
  /\ pc = "start"
  /\ LET r == ReasonCodeToNum(flags.reasonCode)
     IN IF r.err # "" THEN Fail(r.err) ELSE Goto("gate")
  /\ UNCHANGED <<flags, args, serial, token, flow, caURL, rootFile, client, tr,
                 bundle, io, gen, ncalls, sent, out, revokeRet, reasonCode>>

\* the gate of line 223 left out
OfflineWithTokenAllowed == FALSE

\* the condition of line 223
OfflineWithToken == flags.offline /\ token # EmptyToken

\* lines 221-225: offline and token are incompatible
OfflineTokenGate ==
  /\ pc = "gate"
  /\ IF OfflineWithToken
       THEN Fail("flag --offline is incompatible with --token")
       ELSE Goto("newRevokeFlow")
  /\ UNCHANGED <<flags, args, serial, token, flow, caURL, rootFile, client, tr,
                 bundle, io, gen, ncalls, sent, out, revokeRet, reasonCode>>

\* newRevokeFlow, lines 294-299 and 311-314 (online)
NewRevokeFlow ==
  /\ pc = "newRevokeFlow"
  /\ IF ~flags.offline
       THEN /\ flow' = [built |-> TRUE, offline |-> FALSE, offlineCA |-> FALSE]
            /\ Goto("branch")
       ELSE /\ flow' = flow
            /\ IF flags.caConfig = ""
                 THEN Fail("invalid value for flag --ca-config")
                 ELSE Goto("newOfflineCA")
  /\ UNCHANGED <<flags, args, serial, token, caURL, rootFile, client, tr,
                 bundle, io, gen, ncalls, sent, out, revokeRet, reasonCode>>

\* the condition of lines 235 and 304
CertOrKey == flags.cert # "" \/ flags.key # ""

\* lines 300-304 without the verification of lines 304-308
NewOfflineCAWithoutVerification ==
  /\ pc = "newOfflineCA"
  /\ Did("NewOfflineCA")
  /\ \/ /\ Fail("error loading the offline CA")
        /\ flow' = flow
     \/ /\ flow' = [built |-> TRUE, offline |-> TRUE, offlineCA |-> TRUE]
        /\ Goto("branch")
  /\ UNCHANGED <<flags, args, serial, token, caURL, rootFile, client, tr,
                 bundle, gen, ncalls, sent, out, revokeRet, reasonCode>>

\* newRevokeFlow, lines 300-304: cautils.NewOfflineCA loads the CA configuration
NewOfflineCA ==
  /\ pc = "newOfflineCA"
  /\ Did("NewOfflineCA")
  /\ \/ /\ Fail("error loading the offline CA")
        /\ flow' = flow
     \/ /\ flow' = [built |-> ~CertOrKey, offline |-> TRUE, offlineCA |-> TRUE]
        /\ Goto(IF CertOrKey THEN "verifyClientCert" ELSE "branch")
  /\ UNCHANGED <<flags, args, serial, token, caURL, rootFile, client, tr,
                 bundle, gen, ncalls, sent, out, revokeRet, reasonCode>>

\* newRevokeFlow, lines 304-308: offlineClient.VerifyClientCert(certFile, keyFile)
VerifyClientCert ==
  /\ pc = "verifyClientCert"
  /\ Did("VerifyClientCert")
  /\ \/ /\ Fail("error verifying the client certificate")
        /\ flow' = flow
     \/ /\ Readable(flags.cert) /\ Readable(flags.key)
        /\ flow' = [flow EXCEPT !.built = TRUE]
        /\ Goto("branch")
  /\ UNCHANGED <<flags, args, serial, token, caURL, rootFile, client, tr,
                 bundle, gen, ncalls, sent, out, revokeRet, reasonCode>>

(***************************************************************************)
(* revokeCertificateAction: the cert/key branch and the serial branch      *)
(***************************************************************************)
\* ctx.NArg()
NArg == Len(args)

\* lines 235-251 without the check of lines 243-245
CertKeyBranchKeyUnchecked ==
  /\ pc = "branch"
  /\ CertOrKey
  /\ IF NArg > 0
       THEN Fail("--cert/--key expects no additional positional arguments")
     ELSE IF flags.cert = ""
       THEN Fail("flag --key requires the --cert flag")
     ELSE Goto("readBundle")
  /\ UNCHANGED <<flags, args, serial, token, flow, caURL, rootFile, client, tr,
                 bundle, io, gen, ncalls, sent, out, revokeRet, reasonCode>>

\* lines 235-251: --cert/--key given; the errors built at lines 247 and 250
\* are dropped, so a token or a serial given as well changes nothing here
CertKeyBranch ==
  /\ pc = "branch"
  /\ CertOrKey
  /\ IF NArg > 0
       THEN Fail("--cert/--key expects no additional positional arguments")
     ELSE IF flags.cert = ""
       THEN Fail("flag --key requires the --cert flag")
     ELSE IF flags.key = ""
       THEN Fail("flag --cert requires the --key flag")
     ELSE Goto("readBundle")
  /\ UNCHANGED <<flags, args, serial, token, flow, caURL, rootFile, client, tr,
                 bundle, io, gen, ncalls, sent, out, revokeRet, reasonCode>>

\* lines 252-257 with the serial number taken from the last certificate
ReadCertificateBundleLast ==
  /\ pc = "readBundle"
  /\ Did("ReadCertificateBundle")
  /\ \/ /\ Fail("error reading the certificate bundle")
        /\ UNCHANGED <<bundle, serial>>
     \/ /\ Readable(flags.cert)
        /\ \E b \in Bundles :
             /\ bundle' = b
             /\ serial' = b[Len(b)]
        /\ Goto("getClient")
  /\ UNCHANGED <<flags, args, token, flow, caURL, rootFile, client, tr,
                 gen, ncalls, sent, out, revokeRet, reasonCode>>

\* lines 252-257: pemutil.ReadCertificateBundle(certFile); serial = cert[0]
ReadCertificateBundle ==
  /\ pc = "readBundle"
  /\ Did("ReadCertificateBundle")
  /\ \/ /\ Fail("error reading the certificate bundle")
        /\ UNCHANGED <<bundle, serial>>
     \/ /\ Readable(flags.cert)
        /\ \E b \in Bundles :
             /\ bundle' = b
             /\ serial' = b[1]
        /\ Goto("getClient")
  /\ UNCHANGED <<flags, args, token, flow, caURL, rootFile, client, tr,
                 gen, ncalls, sent, out, revokeRet, reasonCode>>

\* errs.NumberOfArguments(ctx, required)
NumberOfArguments(required) ==
  IF NArg < required THEN "not enough positional arguments"
  ELSE IF NArg > required THEN "too many positional arguments"
  ELSE ""

\* lines 258-264 without the token generation of lines 263-269
SerialBranchWithoutGeneration ==
  /\ pc = "branch"
  /\ ~CertOrKey
  /\ IF NumberOfArguments(1) # "" THEN Fail(NumberOfArguments(1))
     ELSE Goto("getClient")
  /\ UNCHANGED <<flags, args, serial, token, flow, caURL, rootFile, client, tr,
                 bundle, io, gen, ncalls, sent, out, revokeRet, reasonCode>>

\* lines 258-264: no --cert/--key; exactly one positional argument
SerialBranch ==
  /\ pc = "branch"
  /\ ~CertOrKey
  /\ IF NumberOfArguments(1) # "" THEN Fail(NumberOfArguments(1))
     ELSE IF token = EmptyToken THEN Goto("generateToken")
     ELSE Goto("getClient")
  /\ UNCHANGED <<flags, args, serial, token, flow, caURL, rootFile, client, tr,
                 bundle, io, gen, ncalls, sent, out, revokeRet, reasonCode>>

(***************************************************************************)
(* revokeFlow.GenerateToken                                                *)
(***************************************************************************)
\* lines 371-373: f.offlineCA.GenerateToken(ctx, RevokeType, *subject, ...)
OfflineGenerateToken ==
  /\ pc = "generateToken"
  /\ flow.offline
  /\ Did("OfflineCA.GenerateToken")
  /\ gen' = Append(gen, [by |-> "offline", subject |-> serial,
                         caURL |-> <<>>, root |-> ""])
  /\ \/ /\ Fail("error generating the token")
        /\ token' = token
     \/ /\ token' = Jws(serial, <<>>, <<>>)
        /\ Goto("getClient")
  /\ UNCHANGED <<flags, args, serial, flow, caURL, rootFile, client, tr,
                 bundle, ncalls, sent, out, revokeRet, reasonCode>>

\* where GenerateToken goes once caURL and root are resolved (line 391)
AfterGenRoot == IF serial = <<>> THEN "prompt" ELSE "newTokenFlow"

\* lines 375-389, up to the os.Stat of the default root
GenerateTokenResolve ==
  /\ pc = "generateToken"
  /\ ~flow.offline
  /\ LET p == ParseCaURLIfExists(flags.caURL)
     IN IF p.err # ""
          THEN Fail(p.err) /\ UNCHANGED <<caURL, rootFile>>
        ELSE IF p.url = <<>>
          THEN /\ Fail("flag --ca-url is required unless --token is used")
               /\ UNCHANGED <<caURL, rootFile>>
        ELSE /\ caURL' = p.url
             /\ rootFile' = flags.root
             /\ Goto(IF flags.root = "" THEN "genStatRoot" ELSE AfterGenRoot)
  /\ UNCHANGED <<flags, args, serial, token, flow, client, tr,
                 bundle, io, gen, ncalls, sent, out, revokeRet, reasonCode>>

\* lines 385-388: root = pki.GetRootCAPath(); os.Stat(root)
GenerateTokenStatRoot ==
  /\ pc = "genStatRoot"
  /\ Did("Stat default root")
  /\ \/ /\ Fail("flag --root is required unless --token is used")
        /\ rootFile' = DefaultRoot
     \/ /\ rootFile' = DefaultRoot
        /\ Goto(AfterGenRoot)
  /\ UNCHANGED <<flags, args, serial, token, flow, caURL, client, tr,
                 bundle, gen, ncalls, sent, out, revokeRet, reasonCode>>

\* lines 391-396: ui.Prompt(..., ui.WithValidateNotEmpty())
PromptSerial ==
  /\ pc = "prompt"
  /\ Did("Prompt")
  /\ \/ /\ Fail("prompt aborted")
        /\ serial' = serial
     \/ /\ serial' \in PromptSerials
        /\ Goto("newTokenFlow")
  /\ UNCHANGED <<flags, args, token, flow, caURL, rootFile, client, tr,
                 bundle, gen, ncalls, sent, out, revokeRet, reasonCode>>

\* line 398: cautils.NewTokenFlow(ctx, RevokeType, *subject, nil, caURL, root, ...)
\* returns a token for the subject; its audience and fingerprint are the
\* generator's choice
NewTokenFlow ==
  /\ pc = "newTokenFlow"
  /\ Did("NewTokenFlow")
  /\ gen' = Append(gen, [by |-> "online", subject |-> serial,
                         caURL |-> caURL, root |-> rootFile])
  /\ \/ /\ Fail("error generating the token")
        /\ token' = token
     \/ /\ \E a \in {<<>>, <<caURL>>}, h \in Fingerprints :
             token' = Jws(serial, a, h)
        /\ Goto("getClient")
  /\ UNCHANGED <<flags, args, serial, flow, caURL, rootFile, client, tr,
                 bundle, ncalls, sent, out, revokeRet, reasonCode>>

(***************************************************************************)
(* revokeFlow.getClient                                                    *)
(***************************************************************************)
\* lines 318-320: the offline client, whatever the token
GetClientOffline ==
  /\ pc = "getClient"
  /\ flow.offline
  /\ client' = OfflineClient
  /\ Goto("reasonCode")
  /\ UNCHANGED <<flags, args, serial, token, flow, caURL, rootFile, tr,
                 bundle, io, gen, ncalls, sent, out, revokeRet, reasonCode>>

\* jose.ParseSigned and UnsafeClaimsWithoutVerification, lines 331-338
ParseTokenError(t) ==
  IF t.form = "malformed" THEN "error parsing flag --token: not a signed token"
  ELSE IF t.form = "badclaims" THEN "error parsing flag --token: claims"
  ELSE ""

\* the comparison of line 339 left out
SubjectNotCompared(claims, s) == TRUE

\* line 339
SubjectMatches(claims, s) == EqualFold(claims.sub, s)

\* line 344: the claims carry a fingerprint and an http(s) audience
HintUsable(claims) ==
  /\ Len(claims.sha) > 0
  /\ Len(claims.aud) > 0
  /\ HasPrefix(ToLower(claims.aud[1]), HttpPrefix)

\* line 346 without the condition of line 345
HintURLAlwaysAudience(url, claims) == claims.aud[1]

\* lines 345-347: the URL the client of a token with a usable hint is bound to
HintURL(url, claims) == IF url = <<>> THEN claims.aud[1] ELSE url

\* lines 322-357, up to the construction of the client or the os.Stat of the
\* default root
GetClientOnline ==
  /\ pc = "getClient"
  /\ ~flow.offline
  /\ LET p == ParseCaURLIfExists(flags.caURL)
     IN IF p.err # ""
          THEN Fail(p.err) /\ UNCHANGED <<caURL, rootFile>>
        ELSE IF token # EmptyToken /\ ParseTokenError(token) # ""
          THEN Fail(ParseTokenError(token)) /\ UNCHANGED <<caURL, rootFile>>
        ELSE IF token # EmptyToken /\ ~SubjectMatches(token, serial)
          THEN /\ Fail("token subject and serial number do not match")
               /\ UNCHANGED <<caURL, rootFile>>
        ELSE IF token # EmptyToken /\ HintUsable(token)
          THEN /\ caURL' = HintURL(p.url, token)
               /\ rootFile' = flags.root
               /\ Goto("newClientSHA")
        ELSE IF token = EmptyToken /\ p.url = <<>>
          THEN Fail("flag --ca-url is required") /\ UNCHANGED <<caURL, rootFile>>
        ELSE /\ caURL' = p.url
             /\ rootFile' = flags.root
             /\ Goto(IF flags.root = "" THEN "statRoot" ELSE "newClientRoot")
  /\ UNCHANGED <<flags, args, serial, token, flow, client, tr,
                 bundle, io, gen, ncalls, sent, out, revokeRet, reasonCode>>

\* lines 348-350: options = WithRootSHA256(claims.SHA); print the CA;
\* ca.NewClient(caURL, options...)
NewClientSHA ==
  /\ pc = "newClientSHA"
  /\ out' = Append(out, [kind |-> "CA", text |-> caURL])
  /\ Did("NewClient")
  /\ ncalls' = Append(ncalls, [url |-> caURL, rootFile |-> "", rootSHA |-> token.sha])
  /\ \/ /\ Fail("error creating the client")
        /\ client' = client
     \/ /\ client' = [kind |-> "online", url |-> caURL, rootFile |-> "",
                      rootSHA |-> token.sha]
        /\ Goto("reasonCode")
  /\ UNCHANGED <<flags, args, serial, token, flow, caURL, rootFile, tr,
                 bundle, gen, sent, revokeRet, reasonCode>>

\* lines 357-362: rootFile = pki.GetRootCAPath(); os.Stat(rootFile)
GetClientStatRoot ==
  /\ pc = "statRoot"
  /\ Did("Stat default root")
  /\ rootFile' = DefaultRoot
  /\ \/ Fail("flag --root is required")
     \/ Goto("newClientRoot")
  /\ UNCHANGED <<flags, args, serial, token, flow, caURL, client, tr,
                 bundle, gen, ncalls, sent, out, revokeRet, reasonCode>>

\* lines 363-366: options = WithRootFile(rootFile); print the CA;
\* ca.NewClient(caURL, options...)
NewClientRoot ==
  /\ pc = "newClientRoot"
  /\ out' = Append(out, [kind |-> "CA", text |-> caURL])
  /\ Did("NewClient")
  /\ ncalls' = Append(ncalls, [url |-> caURL, rootFile |-> rootFile, rootSHA |-> <<>>])
  /\ \/ /\ Fail("error creating the client")
        /\ client' = client
     \/ /\ client' = [kind |-> "online", url |-> caURL, rootFile |-> rootFile,
                      rootSHA |-> <<>>]
        /\ Goto("reasonCode")
  /\ UNCHANGED <<flags, args, serial, token, flow, caURL, rootFile, tr,
                 bundle, gen, sent, revokeRet, reasonCode>>

(***************************************************************************)
(* revokeFlow.Revoke, after getClient                                      *)
(***************************************************************************)
\* a transport for every --cert/--key invocation, token or not
NeedsTransportForCertKey == CertOrKey

\* line 417: the mTLS transport is set up when no token is provided
NeedsTransport == token = EmptyToken

\* lines 407-417: the reasonCode flag is converted again; then the transport
\* is set up when there is no token
ConvertReasonCode ==
  /\ pc = "reasonCode"
  /\ LET r == ReasonCodeToNum(flags.reasonCode)
     IN IF r.err # ""
          THEN Fail(r.err) /\ reasonCode' = reasonCode
          ELSE /\ reasonCode' = r.code
               /\ Goto(IF NeedsTransport THEN "mtlsReadCert" ELSE "dispatch")
  /\ UNCHANGED <<flags, args, serial, token, flow, caURL, rootFile, client, tr,
                 bundle, io, gen, ncalls, sent, out, revokeRet>>

\* lines 418-423: os.ReadFile(certFile)
MtlsReadCert ==
  /\ pc = "mtlsReadCert"
  /\ Did("ReadFile cert")
  /\ \/ Fail("error reading certificate")
     \/ Readable(flags.cert) /\ Goto("mtlsReadKey")
  /\ UNCHANGED <<flags, args, serial, token, flow, caURL, rootFile, client, tr,
                 bundle, gen, ncalls, sent, out, revokeRet, reasonCode>>

\* lines 424-427: pemutil.Read(keyFile)
MtlsReadKey ==
  /\ pc = "mtlsReadKey"
  /\ Did("Read key")
  /\ \/ Fail("error parsing key")
     \/ Readable(flags.key) /\ Goto("mtlsKeyPair")
  /\ UNCHANGED <<flags, args, serial, token, flow, caURL, rootFile, client, tr,
                 bundle, gen, ncalls, sent, out, revokeRet, reasonCode>>

\* lines 428-446: pemutil.Serialize, tls.X509KeyPair, the chain, the root flag
MtlsKeyPair ==
  /\ pc = "mtlsKeyPair"
  /\ \/ Fail("error serializing key") /\ rootFile' = rootFile
     \/ Fail("error loading certificate key pair") /\ rootFile' = rootFile
     \/ Fail("error loading certificate: certificate chain is empty")
          /\ rootFile' = rootFile
     \/ /\ rootFile' = flags.root
        /\ Goto(IF flags.root = "" THEN "mtlsStatRoot" ELSE "mtlsReadCertPool")
  /\ UNCHANGED <<flags, args, serial, token, flow, caURL, client, tr,
                 bundle, io, gen, ncalls, sent, out, revokeRet, reasonCode>>

\* lines 441-446: root = pki.GetRootCAPath(); os.Stat(root)
MtlsStatRoot ==
  /\ pc = "mtlsStatRoot"
  /\ Did("Stat default root")
  /\ rootFile' = DefaultRoot
  /\ \/ Fail("flag --root is required unless --token is used")
     \/ Goto("mtlsReadCertPool")
  /\ UNCHANGED <<flags, args, serial, token, flow, caURL, client, tr,
                 bundle, gen, ncalls, sent, out, revokeRet, reasonCode>>

\* lines 447-459: x509util.ReadCertPool(root); tr = &http.Transport{...}
MtlsReadCertPool ==
  /\ pc = "mtlsReadCertPool"
  /\ Did("ReadCertPool")
  /\ \/ /\ Fail("error reading the root certificate pool")
        /\ tr' = tr
     \/ /\ tr' = [built |-> TRUE, cert |-> flags.cert, key |-> flags.key,
                  rootCAs |-> rootFile]
        /\ Goto("dispatch")
  /\ UNCHANGED <<flags, args, serial, token, flow, caURL, rootFile, client,
                 bundle, gen, ncalls, sent, out, revokeRet, reasonCode>>

\* lines 462-468 with the reason code left at its zero value
RevokeRequestWithoutReasonCode ==
  [Serial |-> serial, ReasonCode |-> 0, OTT |-> token, Passive |-> TRUE]

\* lines 462-468
RevokeRequest ==
  [Serial |-> serial, ReasonCode |-> reasonCode, OTT |-> token, Passive |-> TRUE]

\* lines 462-472 with the error of client.Revoke wrapped
DispatchWrappingError ==
  /\ pc = "dispatch"
  /\ Did("Revoke")
  /\ sent' = Append(sent, [req |-> RevokeRequest, tr |-> tr, client |-> client])
  /\ \/ \E e \in RevokeErrors : revokeRet' = e /\ Fail("error revoking certificate")
     \/ revokeRet' = "" /\ Goto("print")
  /\ UNCHANGED <<flags, args, serial, token, flow, caURL, rootFile, client, tr,
                 bundle, gen, ncalls, out, reasonCode>>

\* lines 462-472: client.Revoke(req, tr); its error is returned as it is
Dispatch ==
  /\ pc = "dispatch"
  /\ Did("Revoke")
  /\ sent' = Append(sent, [req |-> RevokeRequest, tr |-> tr, client |-> client])
  /\ \/ \E e \in RevokeErrors : revokeRet' = e /\ Fail(e)
     \/ revokeRet' = "" /\ Goto("print")
  /\ UNCHANGED <<flags, args, serial, token, flow, caURL, rootFile, client, tr,
                 bundle, gen, ncalls, out, reasonCode>>

\* lines 276-277: the confirmation
PrintRevoked ==
  /\ pc = "print"
  /\ out' = Append(out, [kind |-> "revoked", text |-> serial])
  /\ pc' = "done"
  /\ UNCHANGED <<flags, args, serial, token, flow, caURL, rootFile, client, tr,
                 bundle, io, gen, ncalls, sent, revokeRet, reasonCode, err>>

Next ==
  \/ ValidateReasonCode
  \/ OfflineTokenGate
  \/ NewRevokeFlow
  \/ NewOfflineCA
  \/ VerifyClientCert
  \/ CertKeyBranch
  \/ ReadCertificateBundle
  \/ SerialBranch
  \/ OfflineGenerateToken
  \/ GenerateTokenResolve
  \/ GenerateTokenStatRoot
  \/ PromptSerial
  \/ NewTokenFlow
  \/ GetClientOffline
  \/ GetClientOnline
  \/ NewClientSHA
  \/ GetClientStatRoot
  \/ NewClientRoot
  \/ ConvertReasonCode
  \/ MtlsReadCert
  \/ MtlsReadKey
  \/ MtlsKeyPair
  \/ MtlsStatRoot
  \/ MtlsReadCertPool
  \/ Dispatch
  \/ PrintRevoked

Spec == Init /\ [][Next]_vars

Ended == pc \in {"done", "failed"}

(***************************************************************************)
(* Properties                                                              *)
(***************************************************************************)
Online == ~flags.offline

SubjectMismatchError == "token subject and serial number do not match"

\* the positions of getClient after the token was inspected
ClientResolving == pc \in {"newClientSHA", "statRoot", "newClientRoot"}

\* no file, network or terminal access and no effect of one
NoAccessYet ==
  /\ io = <<>> /\ gen = <<>> /\ ncalls = <<>> /\ sent = <<>> /\ out = <<>>
  /\ flow.offlineCA = FALSE /\ client = NoClient /\ tr = NoTransport
  /\ bundle = <<>>

\* a parsed token whose subject differs from the serial number is present as
\* getClient starts
MismatchAtResolution ==
  GetClientOnline /\ token.form = "jws" /\ ~EqualFold(token.sub, serial)

\* online, a token present at client resolution lets the resolution go on only
\* if its subject equals the serial number ignoring case; no dispatched online
\* request carries a token whose subject differs from its serial; the mismatch
\* error comes with nothing dispatched and no client built.
C1_Inv ==
  /\ (Online /\ token # EmptyToken /\ (ClientResolving \/ client.kind = "online"))
       => (token.form = "jws" /\ EqualFold(token.sub, serial))
  /\ \A i \in DOMAIN sent :
       (sent[i].client.kind = "online" /\ sent[i].req.OTT # EmptyToken)
         => EqualFold(sent[i].req.OTT.sub, sent[i].req.Serial)
  /\ err = SubjectMismatchError
       => (pc = "failed" /\ sent = <<>> /\ ncalls = <<>>
           /\ ~EqualFold(token.sub, serial))

\* a mismatch ends the flow with the mismatch error, whatever --ca-url is
C1_StepAlways ==
  MismatchAtResolution
    => (pc' = "failed" /\ err' = SubjectMismatchError
        /\ sent' = <<>> /\ client' = NoClient)

\* C1 as claimed: in online mode a token present at client resolution passes
\* only if its subject equals the serial number ignoring case; on a mismatch
\* the flow fails with the subject/serial mismatch error and nothing is
\* dispatched; no dispatched online request carries a mismatching token.
C1_MismatchAlwaysReported == []C1_Inv /\ [][C1_StepAlways]_vars

\* a mismatch ends the flow: with the --ca-url error when the --ca-url value
\* does not parse, with the mismatch error otherwise
C1_Step ==
  MismatchAtResolution
    => /\ pc' = "failed" /\ sent' = <<>> /\ client' = NoClient
       /\ ncalls' = <<>>
       /\ err' = IF ParseCaURLIfExists(flags.caURL).err # ""
                   THEN ParseCaURLIfExists(flags.caURL).err
                   ELSE SubjectMismatchError

\* C1 (amended): as claimed, except that on a mismatch the flow fails with the
\* --ca-url error when the --ca-url value does not parse, and with the
\* subject/serial mismatch error otherwise; in both cases no client is built
\* and nothing is dispatched.
C1_SubjectMatchesSerial == []C1_Inv /\ [][C1_Step]_vars

\* C1 witness: a --token whose subject differs from the serial number has
\* ended the flow with the mismatch error, for a serial read from the --cert bundle
C1_Witness ==
  /\ Online /\ pc = "failed" /\ err = SubjectMismatchError
  /\ token = flags.token /\ bundle # <<>> /\ serial = bundle[1]
  /\ flags.caURL = UrlCA

\* C2: at dispatch exactly one authorization carrier is present: the transport
\* is built iff the token is empty; no transport is ever built, nor any step of
\* building one taken, while a token is present.
C2_OneCarrier ==
  /\ \A i \in DOMAIN sent :
       sent[i].tr.built <=> (sent[i].req.OTT = EmptyToken)
  /\ pc = "dispatch" => (tr.built <=> (token = EmptyToken))
  /\ tr.built => token = EmptyToken
  /\ pc \in {"mtlsReadCert", "mtlsReadKey", "mtlsKeyPair", "mtlsStatRoot",
             "mtlsReadCertPool"} => token = EmptyToken

\* C2 witness: a request dispatched with --cert, --key and --token all given
C2_Witness ==
  /\ sent # <<>> /\ flags.cert # "" /\ flags.key # ""
  /\ flags.token # EmptyToken /\ ~sent[1].tr.built

\* C3: a --reasonCode value that does not resolve ends the flow with the
\* resolver's error before any file or network access, whatever the other
\* flags and arguments are.
C3_ReasonCodeFailsFast ==
  ReasonCodeToNum(flags.reasonCode).err # ""
    => /\ NoAccessYet
       /\ pc \in {"start", "failed"}
       /\ pc = "failed" => err = ReasonCodeToNum(flags.reasonCode).err

\* C3 witness: an unrecognized reason code rejected in an offline --cert/--key
\* invocation with a positional argument
C3_Witness ==
  /\ pc = "failed" /\ err = "unrecognized revocation reason code"
  /\ flags.offline /\ flags.cert # "" /\ flags.key # "" /\ NArg > 0
  /\ flags.caConfig # ""

IncompatibleOfflineToken == "flag --offline is incompatible with --token"

ReasonCodeError == ReasonCodeToNum(flags.reasonCode).err

\* C4 as stated: offline with a non-empty --token always ends with the
\* incompatible-flags error, no file accessed.
C4_OfflineTokenAlwaysIncompatible ==
  (flags.offline /\ flags.token # EmptyToken /\ Ended)
    => (pc = "failed" /\ err = IncompatibleOfflineToken /\ NoAccessYet)

\* C4 amended: offline with a non-empty --token always fails with no file
\* accessed; the error is the incompatible-flags error when the reason code
\* resolves, and the resolver's error, raised first, when it does not.
C4_OfflineTokenFailsBeforeAccess ==
  (flags.offline /\ flags.token # EmptyToken)
    => /\ NoAccessYet
       /\ pc \in {"start", "gate", "failed"}
       /\ pc = "failed"
            => err = IF ReasonCodeError # "" THEN ReasonCodeError
                     ELSE IncompatibleOfflineToken

\* C4 witness: the incompatible-flags error in an invocation that also names
\* a CA configuration and a certificate
C4_Witness ==
  /\ pc = "failed" /\ err = IncompatibleOfflineToken
  /\ flags.offline /\ flags.token.form = "jws"
  /\ flags.caConfig # "" /\ flags.cert # ""

\* C5: with --token and --cert/--key both supplied the flow fails and
\* dispatches nothing.
C5_TokenWithCertKeyNeverDispatches ==
  (flags.token # EmptyToken /\ flags.cert # "" /\ flags.key # "")
    => (sent = <<>> /\ pc \notin {"print", "done"})

RequiresKey == "flag --cert requires the --key flag"

RequiresCert == "flag --key requires the --cert flag"

ExtraArguments == "--cert/--key expects no additional positional arguments"

OnlyCert == flags.cert # "" /\ flags.key = ""

OnlyKey == flags.cert = "" /\ flags.key # ""

\* C6 as stated: --cert without --key always ends with the required-with error
\* naming key, and --key without --cert with the one naming cert, in both
\* modes and whatever the positional arguments.
C6_RequiredWithAlways ==
  /\ (OnlyCert /\ Ended) => (pc = "failed" /\ err = RequiresKey)
  /\ (OnlyKey /\ Ended) => (pc = "failed" /\ err = RequiresCert)

\* C6 amended: with exactly one of --cert and --key the flow always fails and
\* dispatches nothing; online, with no positional argument and a reason code
\* that resolves, the error is the required-with error naming the missing
\* counterpart; a reason code that does not resolve, and online a positional
\* argument, are reported instead; offline the flow fails inside
\* newRevokeFlow, before the check.
C6_RequiredWithAmended ==
  (OnlyCert \/ OnlyKey)
    => /\ sent = <<>> /\ ncalls = <<>> /\ bundle = <<>>
       /\ pc \in {"start", "gate", "newRevokeFlow", "newOfflineCA",
                  "verifyClientCert", "branch", "failed"}
       /\ pc = "failed"
            => err = IF ReasonCodeError # "" THEN ReasonCodeError
                     ELSE IF flags.offline
                       THEN IF flags.token # EmptyToken THEN IncompatibleOfflineToken
                            ELSE IF flags.caConfig = ""
                              THEN "invalid value for flag --ca-config"
                            ELSE IF io = <<"NewOfflineCA">>
                              THEN "error loading the offline CA"
                            ELSE "error verifying the client certificate"
                     ELSE IF NArg > 0 THEN ExtraArguments
                     ELSE IF OnlyCert THEN RequiresKey
                     ELSE RequiresCert

\* C6 witness: the required-with error naming key, with a token also given
C6_Witness ==
  /\ pc = "failed" /\ err = RequiresKey /\ OnlyCert
  /\ flags.token # EmptyToken

Confirmations == SelectSeq(out, LAMBDA l : l.kind = "revoked")

Revokes == SelectSeq(io, LAMBDA op : op = "Revoke")

\* C7: client.Revoke is invoked at most once; the flow ends either with the
\* confirmation of the dispatched serial after a successful Revoke or with an
\* error; an error of Revoke is returned as it is, with no confirmation; no
\* confirmation without a successful Revoke.
C7_OneRevokeOneOutcome ==
  /\ Len(sent) <= 1 /\ Len(Revokes) = Len(sent)
  /\ Len(Confirmations) <= 1
  /\ Confirmations # <<>>
       => /\ sent # <<>> /\ revokeRet = "" /\ err = "" /\ pc = "done"
          /\ Confirmations[1].text = sent[1].req.Serial
  /\ pc = "done" => (err = "" /\ Len(Confirmations) = 1)
  /\ pc = "failed" => (err # "" /\ Confirmations = <<>>)
  /\ pc # "failed" => err = ""
  /\ revokeRet # "" => (pc = "failed" /\ err = revokeRet /\ Confirmations = <<>>)
  /\ (sent # <<>> /\ pc = "failed") => err = revokeRet

\* C7 witness: Revoke returned an error and the flow returned it
C7_Witness ==
  /\ pc = "failed" /\ revokeRet = "ca: forbidden" /\ err = "ca: forbidden"
  /\ Len(sent) = 1

RootAccesses == {"Stat default root", "ReadCertPool"}

RootErrors == {"flag --root is required", "flag --root is required unless --token is used",
               "error reading the root certificate pool"}

\* C8: offline, no step consults a root file (the --root flag or the default
\* location) and the flow never fails for a missing root.
C8_OfflineNeverResolvesRoot ==
  flags.offline
    => /\ \A i \in DOMAIN io : io[i] \notin RootAccesses
       /\ rootFile = ""
       /\ err \notin RootErrors
       /\ tr.rootCAs = ""

HasAnchor(c) == c.rootFile # "" \/ c.rootSHA # <<>>

\* C9: online, ca.NewClient is never called, no client built and no Revoke
\* dispatched with an empty CA URL or without a trust anchor.
C9_OnlineClientHasURLAndAnchor ==
  Online
    => /\ \A i \in DOMAIN ncalls : ncalls[i].url # <<>> /\ HasAnchor(ncalls[i])
       /\ client.kind = "online" => (client.url # <<>> /\ HasAnchor(client))
       /\ \A i \in DOMAIN sent :
            sent[i].client.url # <<>> /\ HasAnchor(sent[i].client)

\* the root file of lines 357-363: --root, or the default location
ResolvedRoot == IF flags.root # "" THEN flags.root ELSE DefaultRoot

\* C10 as stated: with --ca-url given the client is bound to that URL and a
\* root file and never to the token's fingerprint; with --ca-url absent and a
\* usable hint it is bound to the audience URL and the fingerprint, no root
\* file read.
C10_HintsOnlyWithoutCaURL ==
  \A i \in DOMAIN ncalls :
    IF flags.caURL # <<>>
      THEN /\ ncalls[i].url = flags.caURL
           /\ ncalls[i].rootFile = ResolvedRoot
           /\ ncalls[i].rootSHA = <<>>
      ELSE (token # EmptyToken /\ HintUsable(token))
             => /\ ncalls[i].url = token.aud[1]
                /\ ncalls[i].rootSHA = token.sha
                /\ ncalls[i].rootFile = ""
                /\ \A j \in DOMAIN io : io[j] \notin RootAccesses

\* C10 amended: only the audience URL gives way to an explicit --ca-url. A
\* token with a usable hint always binds the client to its fingerprint and to
\* no root file, read or not: with --ca-url given, to that URL and the
\* fingerprint; with --ca-url absent, to the audience URL and the fingerprint,
\* no root file consulted. Without a usable hint the client is bound to the
\* --ca-url value and a root file (--root or the default location).
C10_HintsAmended ==
  \A i \in DOMAIN ncalls :
    IF token # EmptyToken /\ HintUsable(token)
      THEN /\ ncalls[i].url = IF flags.caURL # <<>> THEN flags.caURL ELSE token.aud[1]
           /\ ncalls[i].rootSHA = token.sha
           /\ ncalls[i].rootFile = ""
           /\ flags.caURL = <<>> => \A j \in DOMAIN io : io[j] \notin RootAccesses
      ELSE /\ ncalls[i].url = flags.caURL
           /\ ncalls[i].rootFile = ResolvedRoot
           /\ ncalls[i].rootSHA = <<>>

\* C10 witness: a client built for an explicit --ca-url and a supplied token
\* with a usable hint
C10_Witness ==
  /\ client.kind = "online" /\ flags.caURL = UrlCA
  /\ flags.token # EmptyToken /\ HintUsable(flags.token)
  /\ client.url = UrlCA /\ client.rootSHA = Fingerprint

\* errors of the configuration: incompatible flags, a missing required or
\* required-with flag, a wrong number of positional arguments
ConfigurationErrors ==
  {IncompatibleOfflineToken, "invalid value for flag --ca-config",
   ExtraArguments, RequiresKey, RequiresCert,
   "not enough positional arguments", "too many positional arguments",
   "flag --ca-url is required unless --token is used",
   "flag --ca-url is required"}

\* C11: a configuration error is returned only while nothing has been
\* accessed: not after the offline CA configuration was loaded, a client
\* certificate verified, a certificate bundle read or any other file or
\* network access.
C11_ConfigurationErrorsBeforeAccess ==
  err \in ConfigurationErrors => NoAccessYet

\* C12: with no positional argument, no --cert/--key and no --token, online
\* with --ca-url and --root given, the flow does not fail on the argument
\* count but prompts for the serial number and goes on to generate a token.
C12_BlankSerialIsPrompted ==
  (NArg = 0 /\ ~CertOrKey /\ flags.token = EmptyToken /\ Online
     /\ flags.caURL = UrlCA /\ flags.root # "" /\ ReasonCodeError = "")
    => /\ err \notin {"not enough positional arguments",
                      "too many positional arguments"}
       /\ pc = "failed" => "Prompt" \in {io[i] : i \in DOMAIN io}

(***************************************************************************)
(* ReasonCodeToNum called on its own                                       *)
(***************************************************************************)
\* how far below 0 and above 10 the numeric reason codes tried reach
ReasonSpan == 12

ReasonNumbers == (0 - ReasonSpan)..(AACompromise + ReasonSpan)

\* decimal strings of integers at and beyond the ends of int
BeyondInt ==
  {MinIntDigits, <<"-">> \o MaxIntDigits \o <<"0">>, MaxIntDigits \o <<"0">>,
   <<"-">> \o Append(SubSeq(MinIntDigits, 1, 18), "9")}

\* digits beyond uint64 followed by a character that is no digit
BeyondUintThenOther ==
  {MaxUintDigits \o <<"0", "x">>, <<"-">> \o MaxUintDigits \o <<"0", " ">>}

EdgeOfInt == {MaxIntDigits, <<"-">> \o MinIntDigits, <<"-">> \o MaxIntDigits}

ToUpperChar(c) ==
  IF \E i \in DOMAIN LowerAlpha : LowerAlpha[i] = c
    THEN UpperAlpha[CHOOSE i \in DOMAIN LowerAlpha : LowerAlpha[i] = c]
    ELSE c

ToUpper(s) == [i \in 1..Len(s) |-> ToUpperChar(s[i])]

\* a name with spaces around its first letter, which is capitalized
Spaced(s) == <<" ", ToUpperChar(Head(s)), " ">> \o Tail(s) \o <<" ">>

ReasonNames == DOMAIN RevocationReasonCodes

\* strings that are neither decimal integers nor table names
OtherReasons ==
  {<<"b","o","g","u","s">>, <<" ","4">>, <<"4"," ">>, <<"1"," ","0">>, <<" "," ">>, <<"k","e","y","-","c","o","m","p","r","o","m","i","s","e">>, <<"k","e","y","c","o","m","p","r","o","m","i","s","e","d">>,
   <<"0","x","4">>, <<"4",".","0">>, <<"-">>, <<"+">>, <<"s","e","v","e","n">>}

\* integers written otherwise than strconv.Itoa writes them
SignedReasons == {<<"+","5">>, <<"0","0","7">>, <<"-","0">>, <<"+","1","1">>, <<"0","0">>, <<"0","1","0">>}

ReasonInputs ==
  {<<>>} \cup {Itoa(n) : n \in ReasonNumbers} \cup BeyondInt \cup EdgeOfInt \cup BeyondUintThenOther
    \cup ReasonNames \cup {ToUpper(s) : s \in ReasonNames}
    \cup {Spaced(s) : s \in ReasonNames}
    \cup {<<"K","e","y","C","o","m","p","r","o","m","i","s","e">>, <<"k","e","y"," ","c","o","m","p","r","o","m","i","s","e">>, <<"k","e","Y","C","o","m","P","r","o","m","I","s","e">>}
    \cup OtherReasons \cup SignedReasons

\* a caller of ReasonCodeToNum with nothing else set
InitReason ==
  /\ flags \in [cert : {""}, key : {""}, token : {EmptyToken}, offline : {FALSE},
                caConfig : {""}, caURL : {<<>>}, root : {""},
                reasonCode : ReasonInputs]
  /\ args = <<>>
  /\ pc = "resolve"
  /\ serial = <<>>
  /\ token = EmptyToken
  /\ flow = NoFlow
  /\ caURL = <<>>
  /\ rootFile = ""
  /\ client = NoClient
  /\ tr = NoTransport
  /\ bundle = <<>>
  /\ io = <<>>
  /\ gen = <<>>
  /\ ncalls = <<>>
  /\ sent = <<>>
  /\ out = <<>>
  /\ revokeRet = ""
  /\ reasonCode = 0
  /\ err = ""

\* code, err := ReasonCodeToNum(rc)
ResolveReasonCode ==
  /\ pc = "resolve"
  /\ reasonCode' = ReasonCodeToNum(flags.reasonCode).code
  /\ err' = ReasonCodeToNum(flags.reasonCode).err
  /\ pc' = "resolved"
  /\ UNCHANGED <<flags, args, serial, token, flow, caURL, rootFile, client, tr,
                 bundle, io, gen, ncalls, sent, out, revokeRet>>

NextReason == ResolveReasonCode

SpecReason == InitReason /\ [][NextReason]_vars

OutOfBounds == "reasonCode out of bounds"

Unrecognized == "unrecognized revocation reason code"

Resolved == pc = "resolved"

\* the decimal strings of the integers tried
DecimalInputs == {Itoa(n) : n \in ReasonNumbers} \cup BeyondInt \cup EdgeOfInt

\* C13 as stated: the decimal string of n resolves to n for n in 0..10 and
\* fails as out of bounds for every other integer n; "" resolves to 0.
C13_NumericAllIntegers ==
  Resolved
    => /\ \A n \in Unspecified..AACompromise :
            flags.reasonCode = Itoa(n) => (err = "" /\ reasonCode = n)
       /\ (flags.reasonCode \in DecimalInputs
             /\ flags.reasonCode \notin {Itoa(n) : n \in Unspecified..AACompromise})
            => err = OutOfBounds
       /\ flags.reasonCode = <<>> => (err = "" /\ reasonCode = 0)

\* C13 amended: the decimal string of n resolves to n for n in 0..10, 7
\* included; for every other n in the range of int it fails as out of bounds;
\* for n beyond the range of int strconv.Atoi fails, the string is looked up
\* as a name and the failure is the unrecognized-reason-code error; ""
\* resolves to 0.
C13_NumericWithinInt ==
  Resolved
    => /\ \A n \in Unspecified..AACompromise :
            flags.reasonCode = Itoa(n) => (err = "" /\ reasonCode = n)
       /\ (flags.reasonCode \in DecimalInputs \ BeyondInt
             /\ flags.reasonCode \notin {Itoa(n) : n \in Unspecified..AACompromise})
            => (err = OutOfBounds /\ reasonCode = 0 - 1)
       /\ flags.reasonCode \in BeyondInt => (err = Unrecognized /\ reasonCode = 0)
       /\ flags.reasonCode = <<>> => (err = "" /\ reasonCode = 0)

\* C13 witness: 9223372036854775808, one beyond the largest int, resolved
C13_Witness ==
  Resolved /\ flags.reasonCode = MinIntDigits /\ err = Unrecognized

\* the normal form of a name: lowercased, the spaces removed
NormalForm(rc) == ToLower(RemoveSpaces(rc))

\* the inputs resolved as names: not empty and no integer to strconv.Atoi
NameInputs == {rc \in ReasonInputs : rc # <<>> /\ ~Atoi(rc).ok}

NamedCodes == {0, 1, 2, 3, 4, 5, 6, 8, 9, 10}

\* C14: a non-empty input that is no integer resolves to the table code of
\* its normal form (lowercased, spaces removed), so inputs that differ only in
\* case or spaces resolve alike and KeyCompromise, keycompromise and
\* "key compromise" give 1; an input whose normal form is no table name fails
\* as unrecognized; the codes reachable by name are exactly 0..6 and 8..10.
C14_NamesNormalized ==
  (Resolved /\ flags.reasonCode \in NameInputs)
    => /\ IF NormalForm(flags.reasonCode) \in ReasonNames
            THEN /\ err = ""
                 /\ reasonCode = RevocationReasonCodes[NormalForm(flags.reasonCode)]
            ELSE err = Unrecognized /\ reasonCode = 0
       /\ \A other \in NameInputs :
            NormalForm(other) = NormalForm(flags.reasonCode)
              => ReasonCodeToNum(other) = [code |-> reasonCode, err |-> err]
       /\ flags.reasonCode \in {<<"K","e","y","C","o","m","p","r","o","m","i","s","e">>, <<"k","e","y","c","o","m","p","r","o","m","i","s","e">>, <<"k","e","y"," ","c","o","m","p","r","o","m","i","s","e">>}
            => (err = "" /\ reasonCode = 1)
       /\ flags.reasonCode = <<"b","o","g","u","s">> => err = Unrecognized
       /\ {ReasonCodeToNum(rc).code :
             rc \in {x \in NameInputs : ReasonCodeToNum(x).err = ""}} = NamedCodes
       /\ err = "" => reasonCode # 7

\* C14 witness: a table name in capitals with spaces resolved
C14_Witness ==
  /\ Resolved /\ flags.reasonCode = Spaced(<<"r","e","m","o","v","e","f","r","o","m","c","r","l">>)
  /\ err = "" /\ reasonCode = RemoveFromCRL

IoOps == {io[i] : i \in DOMAIN io}

\* the positions of GenerateToken
Generating == pc \in {"generateToken", "genStatRoot", "prompt", "newTokenFlow"}

\* the positions of Revoke, and what follows it
Revoking ==
  pc \in {"getClient", "newClientSHA", "statRoot", "newClientRoot", "reasonCode",
          "mtlsReadCert", "mtlsReadKey", "mtlsKeyPair", "mtlsStatRoot",
          "mtlsReadCertPool", "dispatch", "print", "done"}

\* one non-empty positional serial, no --cert/--key, no --token, online,
\* --ca-url and --root given, no reason code
SerialOnlyOnline ==
  /\ NArg = 1 /\ args[1] # <<>>
  /\ ~CertOrKey /\ flags.token = EmptyToken /\ Online
  /\ flags.caURL = UrlCA /\ flags.root = "root.crt"
  /\ flags.reasonCode = <<>>

\* C15: in the serial-only online scenario the token generator is invoked
\* once, for the serial, the URL and the root given, before client resolution
\* and without a prompt; the one dispatched request carries the serial, the
\* generated token, reasonCode 0, passive true and no transport; on success
\* the confirmation names the serial.
C15_SerialOnlyOnline ==
  SerialOnlyOnline
    => /\ Len(gen) <= 1 /\ Len(sent) <= 1
       /\ \A i \in DOMAIN gen :
            gen[i] = [by |-> "online", subject |-> args[1], caURL |-> UrlCA,
                      root |-> "root.crt"]
       /\ "Prompt" \notin IoOps
       /\ (Revoking \/ ncalls # <<>> \/ client # NoClient)
            => (Len(gen) = 1 /\ token.form = "jws" /\ token.sub = args[1])
       /\ \A i \in DOMAIN io :
            io[i] = "NewClient" => \E j \in 1..(i - 1) : io[j] = "NewTokenFlow"
       /\ \A i \in DOMAIN sent :
            /\ sent[i].req = [Serial |-> args[1], ReasonCode |-> 0,
                              OTT |-> token, Passive |-> TRUE]
            /\ sent[i].req.OTT # EmptyToken
            /\ ~sent[i].tr.built
            /\ sent[i].client.kind = "online" /\ sent[i].client.url = UrlCA
       /\ pc = "done"
            => (Len(sent) = 1 /\ out[Len(out)] = [kind |-> "revoked", text |-> args[1]])

\* C15 witness: the scenario ended with the confirmation
C15_Witness == SerialOnlyOnline /\ pc = "done" /\ args[1] = S_AB

\* C16: with --cert or --key given the cert/key branch is taken: a positional
\* argument makes the flow fail, no token is generated, the dispatched serial
\* is that of the first certificate of the bundle; with no --token the
\* transport is built from the pair and a root pool and the request carries
\* an empty token.
C16_CertKeyScenario ==
  CertOrKey
    => /\ gen = <<>> /\ ~Generating /\ "Prompt" \notin IoOps
       /\ err \notin {"not enough positional arguments",
                      "too many positional arguments"}
       /\ NArg > 0 => (sent = <<>> /\ bundle = <<>> /\ ~Revoking)
       /\ Revoking => (bundle # <<>> /\ serial = bundle[1])
       /\ \A i \in DOMAIN sent :
            /\ sent[i].req.Serial = bundle[1]
            /\ flags.token = EmptyToken
                 => /\ sent[i].req.OTT = EmptyToken
                    /\ sent[i].tr = [built |-> TRUE, cert |-> flags.cert,
                                     key |-> flags.key, rootCAs |-> ResolvedRoot]
                    /\ flags.cert # "" /\ flags.key # ""

\* C16 witness: a dispatch over mTLS for a bundle of two certificates with
\* different serial numbers
C16_Witness ==
  /\ sent # <<>> /\ Len(bundle) = 2 /\ bundle[1] # bundle[2]
  /\ flags.token = EmptyToken /\ sent[1].tr.built /\ Online

\* C17: every dispatched request is passive and carries a reason code in
\* 0..10, the resolver's result for the --reasonCode value validated at the
\* start; the conversion at dispatch time never fails once the early
\* validation has succeeded.
C17_DispatchedReasonCode ==
  /\ \A i \in DOMAIN sent :
       /\ sent[i].req.Passive
       /\ sent[i].req.ReasonCode \in Unspecified..AACompromise
       /\ sent[i].req.ReasonCode = ReasonCodeToNum(flags.reasonCode).code
       /\ flags.reasonCode = <<"K","e","y"," ","C","o","m","p","r","o","m","i","s","e">> => sent[i].req.ReasonCode = KeyCompromise
       /\ flags.reasonCode = <<"7">> => sent[i].req.ReasonCode = 7
       /\ flags.reasonCode = <<>> => sent[i].req.ReasonCode = Unspecified
  /\ err \in {OutOfBounds, Unrecognized}
       => (NoAccessYet /\ flow = NoFlow /\ caURL = <<>> /\ rootFile = "")
  /\ pc \notin {"start", "failed", "resolve", "resolved"} => ReasonCodeError = ""

\* C17 witness: a request dispatched with the code of "Key Compromise"
C17_Witness ==
  /\ sent # <<>> /\ flags.reasonCode = <<"K","e","y"," ","C","o","m","p","r","o","m","i","s","e">>
  /\ sent[1].req.ReasonCode = KeyCompromise

\* the failures of newRevokeFlow in offline mode
OfflineFlowErrors ==
  {"invalid value for flag --ca-config", "error loading the offline CA",
   "error verifying the client certificate"}

\* C18: in offline mode with --cert or --key, a Revoke request is dispatched
\* only after the offline CA was loaded and VerifyClientCert succeeded on the
\* pair; a missing --ca-config, a failed load or a failed verification ends
\* the flow with nothing dispatched.
C18_OfflineVerifiesBeforeDispatch ==
  (flags.offline /\ CertOrKey)
    => /\ (sent # <<>> \/ Revoking \/ pc \in {"branch", "readBundle"})
            => /\ Len(io) >= 2
               /\ io[1] = "NewOfflineCA" /\ io[2] = "VerifyClientCert"
               /\ flow = [built |-> TRUE, offline |-> TRUE, offlineCA |-> TRUE]
               /\ flags.cert # "" /\ flags.key # "" /\ flags.caConfig # ""
       /\ \A i \in DOMAIN io :
            io[i] = "Revoke" => \E j \in 1..(i - 1) : io[j] = "VerifyClientCert"
       /\ err \in OfflineFlowErrors
            => /\ pc = "failed" /\ sent = <<>> /\ flow.built = FALSE
               /\ client = NoClient /\ "Revoke" \notin IoOps
       /\ flags.caConfig = "" => (io = <<>> /\ sent = <<>>)
       /\ pc = "verifyClientCert" => sent = <<>>

\* C18 witness: an offline revocation by certificate and key was dispatched
C18_Witness ==
  /\ flags.offline /\ flags.cert # "" /\ flags.key # ""
  /\ sent # <<>> /\ sent[1].client = OfflineClient

\* C19: every token generation, online or offline, is given a non-empty
\* subject, the serial number that is dispatched and reported afterwards.
C19_GeneratedSubjectIsSerial ==
  /\ \A i \in DOMAIN gen : gen[i].subject # <<>>
  /\ \A i \in DOMAIN gen : \A j \in DOMAIN sent :
       gen[i].subject = sent[j].req.Serial
  /\ (pc = "done" /\ gen # <<>>)
       => out[Len(out)] = [kind |-> "revoked", text |-> gen[1].subject]

====
